---- MODULE Spec2Model ----
(***************************************************************************)
(* Model of utils/classify_workbenches.py: the workbench classifier of the *)
(* FreeCAD-addons repository.  The file system below the scan root is a    *)
(* tree of paths (sequences of names, relative to the scan root); the      *)
(* detectors are operators over that tree, computed as the code computes   *)
(* them (an ordered walk with early return); main is a process stepping    *)
(* through scan, write and summary.  File names are compared exactly, as   *)
(* on a case-sensitive file system, and the tree holds no symbolic links.  *)
(***************************************************************************)
EXTENDS Integers, Sequences, FiniteSets, TLC

VARIABLES
    fs,          \* the tree below the scan root: [dirs, files], sets of paths
    nameOrder,   \* the order in which a directory listing enumerates names
    pc,          \* position of the running process
    run,         \* number of the current run of the script
    listing,     \* the entries root.iterdir() enumerates, in order
    idx,         \* index in listing of the next entry to visit
    results,     \* the list scan_addons builds / main holds
    report,      \* the report file: [exists, lines]
    handle,      \* the handle f of write_csv: "none", "open" or "closed"
    exc,         \* the error in flight or that ended the run ("none" if none)
    stdout,      \* the lines printed so far by the current run
    totals,      \* the dict totals of print_summary
    prevReport   \* the report as the previous completed run left it

vars == <<fs, nameOrder, pc, run, listing, idx, results, report, handle, exc,
          stdout, totals, prevReport>>

-----------------------------------------------------------------------------
(* Bounds *)

MaxLeaves == 4      \* entries chosen freely below the addon of a detector tree
MaxRuns == 2        \* consecutive runs of the script on the same tree

-----------------------------------------------------------------------------
(* Names and paths *)

NameSeq ==
    << "Init.py", "init.py", "InitGui.py", "initgui.py", "INIT.PY",
       "__init__.py", "init_gui.py", "Init_Gui.py",
       "freecad", "FreeCAD", "mymod", "other", "deep", "src", "sub",
       "utils", "wbA", "wbB", "README.md",
       "classify_workbenches.py", "workbench_report.csv" >>

Names == { NameSeq[i] : i \in 1..Len(NameSeq) }

Reverse(s) == [ i \in 1..Len(s) |-> s[Len(s) + 1 - i] ]

\* The enumeration orders considered: a listing is not sorted, so both a
\* name order and its reverse are enumerated.
Orders == { NameSeq, Reverse(NameSeq) }

Root == << >>

\* str(addons_root)
RootStr == "/addons"

\* pathlib's "/" operator
Join(p, n) == Append(p, n)

\* Path.name
BaseName(p) == p[Len(p)]

Parent(p) == SubSeq(p, 1, Len(p) - 1)

IsProperPrefix(p, q) == Len(p) < Len(q) /\ SubSeq(q, 1, Len(p)) = p

RECURSIVE PathStr(_)
\* str(path)
PathStr(p) ==
    IF p = Root THEN RootStr
    ELSE PathStr(Parent(p)) \o "/" \o BaseName(p)

-----------------------------------------------------------------------------
(* File-system queries *)

\* Path.exists()
Exists(f, p) == p \in f.dirs \/ p \in f.files

\* Path.is_dir()
IsDir(f, p) == p \in f.dirs

\* Path.iterdir(): the entries directly inside p, in enumeration order
Iterdir(f, ord, p) ==
    LET present == SelectSeq(ord, LAMBDA n : Exists(f, Join(p, n)))
    IN  [ i \in 1..Len(present) |-> Join(p, present[i]) ]

RECURSIVE RglobFrom(_, _, _, _, _)
\* The walk behind Path.rglob(name): the entries of the listing es from
\* position k on, each followed by the walk of its own subtree, keeping
\* the entries called name.
RglobFrom(f, ord, es, k, name) ==
    IF k > Len(es) THEN << >>
    ELSE LET e == es[k]
             here == IF BaseName(e) = name THEN << e >> ELSE << >>
             below == IF IsDir(f, e)
                      THEN RglobFrom(f, ord, Iterdir(f, ord, e), 1, name)
                      ELSE << >>
         IN  here \o below \o RglobFrom(f, ord, es, k + 1, name)

\* Variant of Rglob that looks only directly inside p (glob for rglob)
RglobShallow(f, ord, p, name) ==
    SelectSeq(Iterdir(f, ord, p), LAMBDA e : BaseName(e) = name)

\* Path.rglob(name)
Rglob(f, ord, p, name) == RglobFrom(f, ord, Iterdir(f, ord, p), 1, name)

-----------------------------------------------------------------------------
(* The detectors *)

\* The test of one child of a freecad/ directory
SubMatches(f, sub) ==
    /\ IsDir(f, sub)
    /\ Exists(f, Join(sub, "__init__.py"))
    /\ (Exists(f, Join(sub, "init_gui.py")) \/ Exists(f, Join(sub, "InitGui.py")))

RECURSIVE AnySubFrom(_, _, _)
\* The inner loop of find_new_style, from position k of the listing subs:
\* TRUE at the first child that matches
AnySubFrom(f, subs, k) ==
    IF k > Len(subs) THEN FALSE
    ELSE IF SubMatches(f, subs[k]) THEN TRUE
    ELSE AnySubFrom(f, subs, k + 1)

RECURSIVE FindNewFrom(_, _, _, _)
\* The outer loop of find_new_style, from position k of the rglob result
FindNewFrom(f, ord, hits, k) ==
    IF k > Len(hits) THEN FALSE
    ELSE IF IsDir(f, hits[k]) /\ AnySubFrom(f, Iterdir(f, ord, hits[k]), 1)
         THEN TRUE
    ELSE FindNewFrom(f, ord, hits, k + 1)

find_new_style(f, ord, path) ==
    FindNewFrom(f, ord, Rglob(f, ord, path, "freecad"), 1)

\* Variant of find_old_style that is content with either marker
find_old_style_either(f, path) ==
    LET old_init == Exists(f, Join(path, "Init.py")) \/ Exists(f, Join(path, "init.py"))
        old_gui == Exists(f, Join(path, "InitGui.py")) \/ Exists(f, Join(path, "initgui.py"))
    IN  old_init \/ old_gui

find_old_style(f, path) ==
    LET old_init == Exists(f, Join(path, "Init.py")) \/ Exists(f, Join(path, "init.py"))
        old_gui == Exists(f, Join(path, "InitGui.py")) \/ Exists(f, Join(path, "initgui.py"))
    IN  old_init /\ old_gui

\* Variant of StyleOf whose first test forgets the new layout
StyleOfOldFirst(old_style, new_style) ==
    IF old_style THEN "old"
    ELSE IF new_style THEN "new"
    ELSE "unknown"

\* The if/elif chain of classify_workbench
StyleOf(old_style, new_style) ==
    IF old_style /\ ~new_style THEN "old"
    ELSE IF new_style /\ ~old_style THEN "new"
    ELSE IF old_style /\ new_style THEN "mixed"
    ELSE "unknown"

classify_workbench(f, ord, path) ==
    LET old_style == find_old_style(f, path)
        new_style == find_new_style(f, ord, path)
    IN  [ name |-> BaseName(path),
          style |-> StyleOf(old_style, new_style),
          path |-> PathStr(path),
          old_style |-> old_style,
          new_style |-> new_style ]

-----------------------------------------------------------------------------
(* Trees *)

\* The script itself: utils/classify_workbenches.py below the scan root
ScriptPath == << "utils", "classify_workbenches.py" >>

\* csv_path = script_path.parent / "workbench_report.csv"
ReportPath == Join(Parent(ScriptPath), "workbench_report.csv")

File(p) == [ path |-> p, kind |-> "file" ]

Dir(p) == [ path |-> p, kind |-> "dir" ]

\* The tree holding the given entries and the directories leading to them
BuildFs(leaves) ==
    LET paths == { l.path : l \in leaves }
        above == UNION { { SubSeq(p, 1, k) : k \in 1..(Len(p) - 1) } : p \in paths }
    IN  [ dirs |-> above \cup { l.path : l \in { m \in leaves : m.kind = "dir" } },
          files |-> { l.path : l \in { m \in leaves : m.kind = "file" } } ]

\* No path is both a file and a directory
WellFormed(f) == f.dirs \cap f.files = {}

\* Entries that may occur below the addon directory a of a detector tree
DetectCandidates(a) ==
    { File(a \o << "Init.py" >>), File(a \o << "init.py" >>),
      File(a \o << "InitGui.py" >>), File(a \o << "initgui.py" >>),
      File(a \o << "INIT.PY" >>),
      File(a \o << "sub", "Init.py" >>), File(a \o << "sub", "InitGui.py" >>),
      File(a \o << "freecad" >>),
      File(a \o << "freecad", "__init__.py" >>),
      File(a \o << "freecad", "init_gui.py" >>),
      File(a \o << "freecad", "mymod", "__init__.py" >>),
      File(a \o << "freecad", "mymod", "init_gui.py" >>),
      File(a \o << "freecad", "mymod", "InitGui.py" >>),
      File(a \o << "freecad", "mymod", "Init_Gui.py" >>),
      File(a \o << "freecad", "other", "init_gui.py" >>),
      File(a \o << "freecad", "mymod", "deep", "__init__.py" >>),
      File(a \o << "freecad", "mymod", "deep", "init_gui.py" >>),
      File(a \o << "src", "freecad", "mymod", "__init__.py" >>),
      File(a \o << "src", "freecad", "mymod", "init_gui.py" >>),
      File(a \o << "FreeCAD", "mymod", "__init__.py" >>),
      File(a \o << "FreeCAD", "mymod", "init_gui.py" >>) }

\* The layouts an addon directory d of a scan tree may have
OldPair(d) == { File(Join(d, "Init.py")), File(Join(d, "InitGui.py")) }

NewPair(d) ==
    { File(d \o << "freecad", "mymod", "__init__.py" >>),
      File(d \o << "freecad", "mymod", "init_gui.py" >>) }

Layouts == { "absent", "file", "empty", "old", "new", "mixed", "nested", "subonly" }

Layout(l, d) ==
    CASE l = "absent" -> {}
      [] l = "file" -> { File(d) }
      [] l = "empty" -> { Dir(d) }
      [] l = "old" -> OldPair(d)
      [] l = "new" -> NewPair(d)
      [] l = "mixed" -> OldPair(d) \cup NewPair(d)
      [] l = "nested" -> NewPair(Join(d, "utils"))
      [] l = "subonly" -> OldPair(Join(d, "sub"))

UtilsLayouts == { "empty", "old", "new" }

\* What a report left behind by an earlier version of the tool may hold
StaleLines == << "name,style", "gone,old" >>

NoReport == [ exists |-> FALSE, lines |-> << >> ]

NoTotals == [ old |-> 0, new |-> 0, mixed |-> 0, unknown |-> 0 ]

-----------------------------------------------------------------------------
(* Initial states *)

\* The state of a process that has not started, on tree f with report r
Fresh(f, r) ==
    /\ fs = [ dirs |-> f.dirs,
              files |-> IF r.exists THEN f.files \cup { ReportPath } ELSE f.files ]
    /\ report = r
    /\ pc = "start"
    /\ run = 1
    /\ listing = << >>
    /\ idx = 1
    /\ results = << >>
    /\ handle = "none"
    /\ exc = "none"
    /\ stdout = << >>
    /\ totals = NoTotals
    /\ prevReport = [ valid |-> FALSE, lines |-> << >> ]

\* Scan trees: two addon names, the tool's own directory, a plain file
Init ==
    /\ nameOrder \in Orders
    /\ \E la \in Layouts, lb \in Layouts, lu \in UtilsLayouts, readme \in BOOLEAN,
          r \in { NoReport, [ exists |-> TRUE, lines |-> StaleLines ] } :
          Fresh(BuildFs(Layout(la, << "wbA" >>) \cup Layout(lb, << "wbB" >>)
                        \cup Layout(lu, << "utils" >>) \cup { File(ScriptPath) }
                        \cup (IF readme THEN { File(<< "README.md" >>) } ELSE {})),
                r)

\* Detector trees: one addon directory with up to MaxLeaves entries below it
InitDetect ==
    /\ nameOrder \in Orders
    /\ \E S \in SUBSET DetectCandidates(<< "wbA" >>) :
          /\ Cardinality(S) <= MaxLeaves
          /\ WellFormed(BuildFs(S))
          /\ Fresh(BuildFs(S \cup { Dir(<< "wbA" >>), File(ScriptPath) }), NoReport)

-----------------------------------------------------------------------------
(* Rendering *)

\* str() of a bool, as csv.writer renders it
PyStr(b) == IF b THEN "True" ELSE "False"

\* Variant of fieldnames with two columns exchanged
fieldnamesSwapped == << "name", "path", "style", "old_style", "new_style" >>

fieldnames == << "name", "style", "path", "old_style", "new_style" >>

\* The value csv.DictWriter takes from a row for one field name
FieldText(row, key) ==
    CASE key = "name" -> row.name
      [] key = "style" -> row.style
      [] key = "path" -> row.path
      [] key = "old_style" -> PyStr(row.old_style)
      [] key = "new_style" -> PyStr(row.new_style)

RECURSIVE CsvJoin(_)
\* csv.writer.writerow: the fields separated by commas (no field of the
\* model needs quoting), ended by the line terminator
CsvJoin(fields) ==
    IF Len(fields) = 1 THEN fields[1] \o "\r\n"
    ELSE fields[1] \o "," \o CsvJoin(Tail(fields))

\* DictWriter.writeheader
HeaderLine == CsvJoin(fieldnames)

\* DictWriter.writerow
RowLine(row) == CsvJoin([ i \in 1..Len(fieldnames) |-> FieldText(row, fieldnames[i]) ])

RECURSIVE CountStyle(_, _)
\* sum(r["style"] == s for r in rs)
CountStyle(rs, s) ==
    IF rs = << >> THEN 0
    ELSE (IF rs[1].style = s THEN 1 ELSE 0) + CountStyle(Tail(rs), s)

\* The lines print_summary prints for the results rs and the counts t
SummaryLines(rs, t) ==
    << "\nSummary",
       "----------------------------",
       "Total addons scanned : " \o ToString(Len(rs)),
       "Old-style            : " \o ToString(t.old),
       "New-style            : " \o ToString(t.new),
       "Mixed                : " \o ToString(t.mixed),
       "Unknown              : " \o ToString(t.unknown),
       "----------------------------" >>

-----------------------------------------------------------------------------
(* main, step by step *)

\* main up to the call of scan_addons, and scan_addons up to its loop
Start ==
    /\ pc = "start"
    /\ stdout' = Append(stdout, "Scanning: " \o PathStr(Root))
    /\ results' = << >>
    /\ listing' = Iterdir(fs, nameOrder, Root)
    /\ idx' = 1
    /\ pc' = "scan"
    /\ UNCHANGED <<fs, nameOrder, run, report, handle, exc, totals, prevReport>>

\* Variant of Scanned without the test of the reserved name
ScannedAnyDir(f, child) == IsDir(f, child)

\* Variant of Scanned without the test for a directory
ScannedAnyEntry(f, child) == BaseName(child) /= "utils"

\* Whether scan_addons classifies the entry child
Scanned(f, child) == IsDir(f, child) /\ BaseName(child) /= "utils"

\* One iteration of the loop of scan_addons
ScanChild ==
    /\ pc = "scan"
    /\ idx <= Len(listing)
    /\ LET child == listing[idx]
       IN  results' = IF Scanned(fs, child)
                      THEN Append(results, classify_workbench(fs, nameOrder, child))
                      ELSE results
    /\ idx' = idx + 1
    /\ UNCHANGED <<fs, nameOrder, pc, run, listing, report, handle, exc, stdout,
                   totals, prevReport>>

\* scan_addons returns; main computes csv_path and calls write_csv
ScanReturn ==
    /\ pc = "scan"
    /\ idx > Len(listing)
    /\ pc' = "open"
    /\ UNCHANGED <<fs, nameOrder, run, listing, idx, results, report, handle, exc,
                   stdout, totals, prevReport>>

\* Variant of Uncaught: the error is swallowed and main goes on
Swallowed(e) == "open"

\* Where control goes when an error reaches the top of main
Uncaught(e) == "aborted"

\* A file-system error during the scan: nothing catches it
ScanError ==
    /\ pc = "scan"
    /\ exc' = "scan"
    /\ pc' = Uncaught(exc')
    /\ UNCHANGED <<fs, nameOrder, run, listing, idx, results, report, handle,
                   stdout, totals, prevReport>>

\* Variant of Opened for mode "a": the old content stays
OpenedForAppend(r) == [ exists |-> TRUE, lines |-> r.lines ]

\* The file r once open(csv_path, "w") has succeeded: created or truncated
Opened(r) == [ exists |-> TRUE, lines |-> << >> ]

\* open(csv_path, "w") succeeds
OpenReport ==
    /\ pc = "open"
    /\ ~IsDir(fs, ReportPath)
    /\ fs' = [ fs EXCEPT !.files = @ \cup { ReportPath } ]
    /\ report' = Opened(report)
    /\ handle' = "open"
    /\ pc' = "header"
    /\ UNCHANGED <<nameOrder, run, listing, idx, results, exc, stdout, totals,
                   prevReport>>

\* open fails: no handle exists, the error leaves write_csv and main
OpenError ==
    /\ pc = "open"
    /\ exc' = "open"
    /\ pc' = "aborted"
    /\ UNCHANGED <<fs, nameOrder, run, listing, idx, results, report, handle,
                   stdout, totals, prevReport>>

\* writer.writeheader()
WriteHeader ==
    /\ pc = "header"
    /\ report' = [ report EXCEPT !.lines = Append(@, HeaderLine) ]
    /\ idx' = 1
    /\ pc' = "rows"
    /\ UNCHANGED <<fs, nameOrder, run, listing, results, handle, exc, stdout,
                   totals, prevReport>>

\* One iteration of the loop of write_csv
WriteRow ==
    /\ pc = "rows"
    /\ idx <= Len(results)
    /\ report' = [ report EXCEPT !.lines = Append(@, RowLine(results[idx])) ]
    /\ idx' = idx + 1
    /\ UNCHANGED <<fs, nameOrder, pc, run, listing, results, handle, exc, stdout,
                   totals, prevReport>>

\* The loop of write_csv ends: control leaves the with block
RowsDone ==
    /\ pc = "rows"
    /\ idx > Len(results)
    /\ pc' = "exit"
    /\ UNCHANGED <<fs, nameOrder, run, listing, idx, results, report, handle, exc,
                   stdout, totals, prevReport>>

\* Writing the header or a row fails: the error leaves the with block
WriteError ==
    /\ pc \in { "header", "rows" }
    /\ exc' = "write"
    /\ pc' = "exit"
    /\ UNCHANGED <<fs, nameOrder, run, listing, idx, results, report, handle,
                   stdout, totals, prevReport>>

\* Variant of Released: f is closed only when the block ends normally
ReleasedOnSuccess(h, e) == IF e = "none" THEN "closed" ELSE h

\* The handle once the with block has been left, with or without an error
Released(h, e) == "closed"

\* Where control goes once the with block has been left
AfterWith(e) == IF e = "none" THEN "written" ELSE "aborted"

\* The exit of the with block closes f, then write_csv returns or the
\* error goes on to the caller
WithExit ==
    /\ pc = "exit"
    /\ handle' = Released(handle, exc)
    /\ pc' = AfterWith(exc)
    /\ UNCHANGED <<fs, nameOrder, run, listing, idx, results, report, exc, stdout,
                   totals, prevReport>>

\* Leaving the with block normally, close() fails to flush what was
\* written: f is closed all the same and the error goes on to the caller
CloseError ==
    /\ pc = "exit"
    /\ exc = "none"
    /\ exc' = "write"
    /\ handle' = Released(handle, exc')
    /\ pc' = AfterWith(exc')
    /\ UNCHANGED <<fs, nameOrder, run, listing, idx, results, report, stdout,
                   totals, prevReport>>

\* main prints the confirmation line
Confirm ==
    /\ pc = "written"
    /\ stdout' = Append(stdout, "CSV written to: " \o PathStr(ReportPath))
    /\ pc' = "summary"
    /\ UNCHANGED <<fs, nameOrder, run, listing, idx, results, report, handle, exc,
                   totals, prevReport>>

\* Variant of Totals with a copied line left unedited
TotalsCopied(rs) ==
    [ old |-> CountStyle(rs, "old"),
      new |-> CountStyle(rs, "new"),
      mixed |-> CountStyle(rs, "new"),
      unknown |-> CountStyle(rs, "unknown") ]

\* The dict totals of print_summary
Totals(rs) ==
    [ old |-> CountStyle(rs, "old"),
      new |-> CountStyle(rs, "new"),
      mixed |-> CountStyle(rs, "mixed"),
      unknown |-> CountStyle(rs, "unknown") ]

print_summary ==
    /\ pc = "summary"
    /\ totals' = Totals(results)
    /\ stdout' = stdout \o SummaryLines(results, totals')
    /\ pc' = "done"
    /\ UNCHANGED <<fs, nameOrder, run, listing, idx, results, report, handle, exc,
                   prevReport>>

\* The script is run again on the tree the last run left
Rerun ==
    /\ pc \in { "done", "aborted" }
    /\ run < MaxRuns
    /\ run' = run + 1
    /\ prevReport' = IF pc = "done"
                     THEN [ valid |-> TRUE, lines |-> report.lines ]
                     ELSE [ valid |-> FALSE, lines |-> << >> ]
    /\ pc' = "start"
    /\ listing' = << >>
    /\ idx' = 1
    /\ results' = << >>
    /\ handle' = "none"
    /\ exc' = "none"
    /\ stdout' = << >>
    /\ totals' = NoTotals
    /\ UNCHANGED <<fs, nameOrder, report>>

Next ==
    \/ Start
    \/ ScanChild
    \/ ScanReturn
    \/ ScanError
    \/ OpenReport
    \/ OpenError
    \/ WriteHeader
    \/ WriteRow
    \/ RowsDone
    \/ WriteError
    \/ WithExit
    \/ CloseError
    \/ Confirm
    \/ print_summary
    \/ Rerun

Spec == Init /\ [][Next]_vars

-----------------------------------------------------------------------------
(* The detectors applied to one directory *)

\* The paths the detectors are applied to: every directory of the tree and
\* a directory that does not exist
Probes(f) == f.dirs \cup { << "wbB" >> }

\* classify_workbench called on one path
Classify ==
    /\ pc = "start"
    /\ \E p \in Probes(fs) : results' = << classify_workbench(fs, nameOrder, p) >>
    /\ pc' = "done"
    /\ UNCHANGED <<fs, nameOrder, run, listing, idx, report, handle, exc, stdout,
                   totals, prevReport>>

NextDetect == Classify

SpecDetect == InitDetect /\ [][NextDetect]_vars

-----------------------------------------------------------------------------
(* Properties of the detectors *)

Styles == { "old", "new", "mixed", "unknown" }

\* The names of the entries directly inside p
NamesIn(f, p) == { BaseName(q) : q \in { e \in f.dirs \cup f.files : e /= Root /\ Parent(e) = p } }

\* A legacy pair lies directly inside p
OldLayoutIn(f, p) ==
    /\ NamesIn(f, p) \cap { "Init.py", "init.py" } /= {}
    /\ NamesIn(f, p) \cap { "InitGui.py", "initgui.py" } /= {}

\* Somewhere strictly below p a directory called freecad has a child
\* directory that directly holds the nested pair
NewLayoutBelow(f, p) ==
    \E d \in f.dirs :
        /\ IsProperPrefix(p, d)
        /\ BaseName(d) = "freecad"
        /\ \E sub \in f.dirs :
              /\ Parent(sub) = d
              /\ "__init__.py" \in NamesIn(f, sub)
              /\ NamesIn(f, sub) \cap { "init_gui.py", "InitGui.py" } /= {}

\* The record at position i of results was made for directory p
RecordOf(i, p) == results[i].path = PathStr(p)

\* C1: in every record of results, style is "old" iff old_style and not
\* new_style, "new" iff new_style and not old_style, "mixed" iff both,
\* "unknown" iff neither; every record has exactly one of the four styles.
C1_StyleMatchesFlags ==
    \A i \in 1..Len(results) :
        LET r == results[i]
        IN  /\ r.style \in Styles
            /\ (r.style = "old") <=> (r.old_style /\ ~r.new_style)
            /\ (r.style = "new") <=> (r.new_style /\ ~r.old_style)
            /\ (r.style = "mixed") <=> (r.old_style /\ r.new_style)
            /\ (r.style = "unknown") <=> (~r.old_style /\ ~r.new_style)

\* A scan has returned a list holding a mixed record and a record of
\* another style
C1_Witness ==
    /\ pc = "open"
    /\ Len(results) = 2
    /\ results[1].style = "mixed" /\ results[1].old_style /\ results[1].new_style
    /\ results[2].style = "old"

C3_OldStyleIffRootPair ==
    \A i \in 1..Len(results) : \A p \in Probes(fs) :
        RecordOf(i, p) =>
            /\ results[i].old_style = OldLayoutIn(fs, p)
            /\ (NamesIn(fs, p) = {}) => ~results[i].old_style

\* The detector accepted the two lower-case spellings at the addon root
C3_Witness ==
    /\ pc = "done"
    /\ RecordOf(1, << "wbA" >>)
    /\ results[1].old_style
    /\ NamesIn(fs, << "wbA" >>) = { "init.py", "initgui.py" }

-----------------------------------------------------------------------------
(* Properties of the scan *)

\* The directories directly inside the scan root
TopDirs(f) == { d \in f.dirs : Len(d) = 1 }

\* scan_addons has returned in the current run
ScanComplete == pc \in { "open", "header", "rows", "exit", "written", "summary", "done" }
                \/ (pc = "aborted" /\ exc /= "scan")

\* C4: no record is ever made for the top-level directory utils, whatever it
\* holds; a directory utils inside an addon is searched all the same, so a
\* nested pair below it makes the addon's record new-style.
C4_UtilsNeverScanned ==
    /\ \A i \in 1..Len(results) :
          results[i].name /= "utils" /\ ~RecordOf(i, << "utils" >>)
    /\ \A d \in TopDirs(fs) \ { << "utils" >> } :
          (ScanComplete /\ NewLayoutBelow(fs, Join(d, "utils")))
             => \E i \in 1..Len(results) : RecordOf(i, d) /\ results[i].new_style

\* The scan has returned for a tree whose utils holds a legacy pair and
\* whose addon wbA holds a nested pair only below its own utils
C4_Witness ==
    /\ pc = "open"
    /\ OldLayoutIn(fs, << "utils" >>)
    /\ NamesIn(fs, << "wbA" >>) = { "utils" }
    /\ \E i \in 1..Len(results) : RecordOf(i, << "wbA" >>) /\ results[i].style = "new"

\* C5: once scan_addons has returned, results holds exactly one record for
\* each directory directly inside the root that is not called utils, in the
\* order of the listing, and nothing else.
C5_OneRecordPerAddon ==
    ScanComplete =>
        LET addons == SelectSeq(Iterdir(fs, nameOrder, Root),
                                LAMBDA c : c \in fs.dirs /\ c /= << "utils" >>)
        IN  /\ Len(results) = Len(addons)
            /\ \A i \in 1..Len(results) :
                  RecordOf(i, addons[i]) /\ results[i].name = addons[i][1]
            /\ \A i, j \in 1..Len(results) :
                  (results[i].path = results[j].path) => (i = j)
            /\ Len(results) = Cardinality(TopDirs(fs) \ { << "utils" >> })

\* The scan has returned two records, wbB first, for a root that also holds
\* a plain file and an addon with a subdirectory
C5_Witness ==
    /\ pc = "open"
    /\ Exists(fs, << "README.md" >>)
    /\ IsDir(fs, << "wbA", "sub" >>)
    /\ Len(results) = 2
    /\ results[1].name = "wbB" /\ results[2].name = "wbA"

-----------------------------------------------------------------------------
(* Properties of the outputs *)

\* The summary lines print_summary would print for the counts given
PrintedCounts(total, o, n, m, u) ==
    << "Total addons scanned : " \o ToString(total),
       "Old-style            : " \o ToString(o),
       "New-style            : " \o ToString(n),
       "Mixed                : " \o ToString(m),
       "Unknown              : " \o ToString(u) >>

\* C6: when the summary has been printed, the four printed counts sum to the
\* printed total, which is len(results) and the number of rows of the report
\* below its header.
C6_CountsSumToRows ==
    (pc = "done") =>
        /\ Len(stdout) = 10
        /\ \E o, n, m, u \in 0..Len(results) :
              /\ SubSeq(stdout, 5, 9) = PrintedCounts(o + n + m + u, o, n, m, u)
              /\ o + n + m + u = Len(results)
              /\ o + n + m + u = Len(report.lines) - 1

\* A summary with a mixed and an unknown addon has been printed
C6_Witness ==
    /\ pc = "done"
    /\ totals.mixed = 1 /\ totals.unknown = 1
    /\ Len(report.lines) = 3

\* C7: a run that completes after a completed run on the same tree leaves
\* the report exactly as the earlier run left it.
C7_SecondRunSameReport ==
    (pc = "done" /\ prevReport.valid) => (report.lines = prevReport.lines)

\* A second run has completed with a report of two rows
C7_Witness ==
    /\ pc = "done"
    /\ run = 2
    /\ prevReport.valid
    /\ Len(report.lines) = 3
    /\ \E i \in 1..Len(results) : results[i].style = "new"

\* The text of a flag in the report
FlagText(b) == IF b THEN "True" ELSE "False"

\* The row of the report for the record r
ExpectedRow(r) ==
    r.name \o "," \o r.style \o "," \o r.path \o "," \o FlagText(r.old_style)
           \o "," \o FlagText(r.new_style) \o "\r\n"

\* C8: after write_csv has returned, the report is the header row followed
\* by one row per record, in the order of results, fields in the fixed
\* order, and nothing of its earlier content.
C8_ReportIsHeaderPlusRows ==
    (pc \in { "written", "summary", "done" }) =>
        /\ report.exists
        /\ Exists(fs, ReportPath)
        /\ Len(report.lines) = Len(results) + 1
        /\ report.lines[1] = "name,style,path,old_style,new_style\r\n"
        /\ \A i \in 1..Len(results) : report.lines[i + 1] = ExpectedRow(results[i])

\* write_csv has returned after overwriting the report of an earlier run
\* with rows for an old and a mixed addon
C8_Witness ==
    /\ pc = "written"
    /\ run = 2
    /\ prevReport.valid
    /\ Len(results) = 2
    /\ results[1].style = "old" /\ results[2].style = "mixed"
    /\ report.lines[2] = "wbA,old,/addons/wbA,True,False\r\n"

\* C9: whenever control is outside write_csv the handle is not open; when a
\* write failed, the handle was closed and the run ended with that error,
\* printing nothing after the banner.
C9_HandleClosedOnEveryExit ==
    /\ (pc \in { "written", "summary", "done", "aborted" }) => (handle /= "open")
    /\ (pc = "aborted" /\ exc = "write") =>
          (handle = "closed" /\ stdout = << "Scanning: /addons" >>)
    /\ (pc \in { "written", "summary", "done" }) => (handle = "closed" /\ exc = "none")

\* Writing the second row failed; the run has ended
C9_Witness ==
    /\ pc = "aborted"
    /\ exc = "write"
    /\ handle = "closed"
    /\ Len(results) = 2
    /\ Len(report.lines) = 2

-----------------------------------------------------------------------------
(* Order of the steps of main *)

\* Position of a step in the pass scan, write, summarize
Rank(s) ==
    CASE s = "start" -> 0
      [] s = "scan" -> 1
      [] s = "open" -> 2
      [] s = "header" -> 3
      [] s = "rows" -> 4
      [] s = "exit" -> 5
      [] s = "written" -> 6
      [] s = "summary" -> 7
      [] s = "done" -> 8
      [] s = "aborted" -> 9

SummaryPrinted == \E i \in 1..Len(stdout) : stdout[i] = "\nSummary"

\* What holds of every state of a single pass
PassOrder ==
    /\ (handle /= "none") =>
          (ScanComplete /\ Len(results) = Cardinality(TopDirs(fs) \ { << "utils" >> }))
    /\ SummaryPrinted =>
          /\ pc = "done"
          /\ handle = "closed"
          /\ exc = "none"
          /\ Len(report.lines) = Len(results) + 1
    /\ (pc = "aborted") => ~SummaryPrinted
    /\ (pc = "aborted" /\ exc = "scan") => (handle = "none")

\* What holds of every step of a single pass: the report is untouched until
\* the scan has returned, and within a run control only moves forward
PassStep ==
    /\ (pc \in { "start", "scan" }) => (report' = report)
    /\ \/ run' = run /\ Rank(pc') >= Rank(pc)
       \/ run' = run + 1 /\ pc \in { "done", "aborted" } /\ pc' = "start"
    /\ (pc = "aborted" /\ run' = run) => (pc' = "aborted" /\ stdout' = stdout /\ report' = report)

\* C10: a run is one pass scan, write, summarize: the report is opened only
\* after every addon has been classified, the summary is printed only after
\* the report is complete; a scan error leaves the report as it was and
\* prints no summary, a write error prints no summary, nothing is retried.
C10_SinglePassInOrder == [](PassOrder) /\ [][PassStep]_vars

\* The scan was aborted by an error after visiting an entry, with the
\* report of an earlier tool still in place
C10_Witness ==
    /\ pc = "aborted"
    /\ exc = "scan"
    /\ idx > 1
    /\ report = [ exists |-> TRUE, lines |-> StaleLines ]
    /\ stdout = << "Scanning: /addons" >>

====
